---- MODULE Spec2Model ----
(***************************************************************************)
(* A model of go-favicon's icon pipeline: the parser's URL resolver, the   *)
(* well-known-path prober, FindReader's entry check, and postProcessIcons  *)
(* (normalise, deduplicate by hash, filter, sort with ByWidth).            *)
(*                                                                         *)
(* URL strings are TLA+ strings taken from a small universe; what Go's     *)
(* net/url, mime and string comparison do on that universe is written out  *)
(* as tables (ParseOK, PathExt, ByteOrder, ...).                           *)
(***************************************************************************)
EXTENDS Integers, Sequences, FiniteSets, TLC

\* ------------------------------------------------------------ bounds

\* Longest candidate list handed to postProcessIcons, and longest filter
\* chain configured through New(...), in Spec.
MaxIcons == 2
MaxFilters == 1

\* The same two in SpecChain: shorter documents, longer chains.
MaxDoc == 1
MaxChain == 2

\* Longest candidate list in SpecSizes, whose candidates declare sizes.
MaxSized == 2

\* ------------------------------------------------------ URL universe

\* p.baseURL == nil
NoBase == "<nil>"

\* The parsed base URLs a parser can hold: an absolute one, and a
\* path-only one (urls.Parse accepts it; Scheme and Host are empty).
BaseURLs == {"https://h.com", "/local"}

\* URL strings as the extractors hand them over (before resolution).
RawURLs ==
  {"", "%zz", "/a.png", "/b.ico", "/c.png", "/d", "/e-32x32.png",
   "https://h.com/a.png"}

\* net/url.Parse: "%zz" is an invalid URL escape, so parsing fails.  A
\* string starting with ":" fails with "missing protocol scheme".
ParseOK(s) ==
  s \notin {"%zz", ":x", ":///favicon.ico", ":///apple-touch-icon.png"}

\* u.IsAbs(): the string carries its own scheme.
IsAbs(s) == s \in {"https://h.com/a.png"}

\* base.Scheme and base.Host of a parsed base URL.
Scheme(b) == IF b = "https://h.com" THEN "https" ELSE ""
Host(b) == IF b = "https://h.com" THEN "h.com" ELSE ""

\* base.ResolveReference(u).String() for the universe above: an absolute
\* reference is returned as it is, a root-relative path inherits the
\* base's scheme and host (none for a path-only base).
ResolveReference(b, s) ==
  IF IsAbs(s) \/ Scheme(b) = "" THEN s ELSE Scheme(b) \o "://" \o Host(b) \o s

\* filepath.Ext(u.Path) of a URL string that parses.
PathExt(s) ==
  CASE s \in {"/a.png", "/c.png", "/e-32x32.png", "https://h.com/a.png",
              "https://h.com/c.png", "https://h.com/e-32x32.png",
              "https://h.com/apple-touch-icon.png"} -> ".png"
    [] s \in {"/b.ico", "https://h.com/b.ico", "https://h.com/favicon.ico"} -> ".ico"
    [] s \in {"/manifest.json", "https://h.com/manifest.json"} -> ".json"
    [] OTHER -> ""

\* mime.TypeByExtension
TypeByExtension(ext) ==
  CASE ext = ".png" -> "image/png"
    [] ext = ".ico" -> "image/vnd.microsoft.icon"
    [] ext = ".json" -> "application/json"
    [] OTHER -> ""

\* Go's < on strings is byte-wise lexicographic; this is the universe of
\* resolved URL strings in that order ('%' 0x25 < '/' 0x2f < 'h' 0x68).
ByteOrder ==
  << "%zz", "/a.png", "/b.ico", "/c.png", "/d", "/e-32x32.png",
     "https://h.com/a.png", "https://h.com/apple-touch-icon.png",
     "https://h.com/b.ico", "https://h.com/c.png", "https://h.com/d",
     "https://h.com/e-32x32.png", "https://h.com/favicon.ico" >>

StrIndex(s) == CHOOSE i \in 1..Len(ByteOrder) : ByteOrder[i] = s

StrLess(s, t) == StrIndex(s) < StrIndex(t)


\* ------------------------------------------------------------- Icon

\* Hash of an icon that has not been through postProcessIcons.
NoHash == <<>>

\* A nil *Icon (a filter's "reject").
Nil == [nil |-> TRUE]

\* A candidate as an extractor creates it: URL, optionally MIME type and
\* size; the other fields are zero values.
RawIcon(u, m, w, h) ==
  [URL |-> u, MimeType |-> m, FileExt |-> "", Width |-> w, Height |-> h,
   Hash |-> NoHash]

\* The raw candidates the model draws its inputs from.
Candidates ==
  { RawIcon("/a.png", "", 0, 0),
    RawIcon("https://h.com/a.png", "image/x-icon", 0, 0),
    RawIcon("/b.ico", "", 16, 16),
    RawIcon("/b.ico", "", 16, 32),
    RawIcon("/c.png", "", 16, 16),
    RawIcon("%zz", "image/png", 0, 0),
    RawIcon("/d", "", 0, 0),
    RawIcon("/e-32x32.png", "", 0, 0) }

\* Raw candidates with every combination of a declared or unknown
\* width and height, at a URL with and without a size token, and one
\* the first loop skips.
SizedCandidates ==
  { RawIcon(u, "", w, h) : u \in {"/a.png", "/e-32x32.png"},
                          w \in {0, 16}, h \in {0, 16} }
    \cup { RawIcon("/d", "", 0, 0) }

IsSquare(i) == i.Width = i.Height

\* --------------------------------------------------- parser helpers

\* parser.absURL as a bug that ignores the parse error would have it.
absURL_IgnoresParseError(b, url) ==
  IF url = "" \/ b = NoBase THEN url
  ELSE ResolveReference(b, url)

\* parser.absURL
absURL(b, url) ==
  IF url = "" \/ b = NoBase THEN url
  ELSE IF ~ParseOK(url) THEN ""
  ELSE IF b # NoBase THEN ResolveReference(b, url)
  ELSE url

\* mimeTypeURL
mimeTypeURL(url) ==
  IF ~ParseOK(url) THEN "" ELSE TypeByExtension(PathExt(url))

\* fileExt: the extension of the URL's path component.
fileExt(url) ==
  IF ~ParseOK(url) THEN "" ELSE PathExt(url)

NoSize == [nil |-> TRUE]

\* extractSizeFromURL: the first WxH token in the URL string, or nil.
extractSizeFromURL(url) ==
  IF url \in {"/e-32x32.png", "https://h.com/e-32x32.png"}
  THEN [w |-> 32, h |-> 32]
  ELSE NoSize

\* iconHash as a bug that hashes the MIME type too would have it.
iconHash_WithMimeType(i) == <<i.URL, i.Width, i.Height, i.MimeType>>

\* fmt.Sprintf("%s-%dx%d", URL, Width, Height) identifies the triple (the
\* two numbers are read back from the end of the string), and SHA-256 is
\* taken as collision free: the digest is modelled by the triple itself.
iconHash(i) == <<i.URL, i.Width, i.Height>>

\* ---------------------------------------------------------- filters

\* MinWidth with an exclusive bound.
MinWidth_Exclusive(width, icon) == IF icon.Width <= width THEN Nil ELSE icon

MinWidth(width, icon) == IF icon.Width < width THEN Nil ELSE icon

MaxWidth(width, icon) == IF icon.Width > width THEN Nil ELSE icon

MinHeight(height, icon) == IF icon.Height < height THEN Nil ELSE icon

MaxHeight(height, icon) == IF icon.Height > height THEN Nil ELSE icon

OnlyMimeType(mimeType, icon) ==
  IF \E k \in 1..Len(mimeType) : icon.MimeType = mimeType[k] THEN icon ELSE Nil

IgnoreNoSize(icon) ==
  IF icon.Width = 0 \/ icon.Height = 0 THEN Nil ELSE icon

OnlyPNG(icon) == OnlyMimeType(<<"image/png">>, icon)

OnlyICO(icon) ==
  IF icon.MimeType = "image/x-icon" \/ icon.MimeType = "image/vnd.microsoft.icon"
  THEN icon ELSE Nil

OnlySquare(icon) == IF ~IsSquare(icon) THEN Nil ELSE icon

\* A caller's own Filter passed to WithFilter: a Filter may modify the
\* icon.  This one reports every icon as square, Height := Width.
SquareUp(icon) == [icon EXCEPT !.Height = icon.Width]

\* The widths and heights the bound filters are built with.
BoundArgs == {16, 32}

\* A configured filter: which constructor built it, and its argument.
BuiltinFilters ==
  [kind : {"MinWidth", "MaxWidth"}, n : BoundArgs]
    \cup [kind : {"MinHeight", "MaxHeight"}, n : {16}]
    \cup [kind : {"OnlyPNG", "OnlyICO", "IgnoreNoSize", "OnlySquare"}, n : {0}]

Filters == BuiltinFilters \cup [kind : {"SquareUp"}, n : {0}]

\* fun(icon) for a configured filter
Call(fun, icon) ==
  CASE fun.kind = "MinWidth" -> MinWidth(fun.n, icon)
    [] fun.kind = "MaxWidth" -> MaxWidth(fun.n, icon)
    [] fun.kind = "MinHeight" -> MinHeight(fun.n, icon)
    [] fun.kind = "MaxHeight" -> MaxHeight(fun.n, icon)
    [] fun.kind = "OnlyPNG" -> OnlyPNG(icon)
    [] fun.kind = "OnlyICO" -> OnlyICO(icon)
    [] fun.kind = "IgnoreNoSize" -> IgnoreNoSize(icon)
    [] fun.kind = "OnlySquare" -> OnlySquare(icon)
    [] fun.kind = "SquareUp" -> SquareUp(icon)


\* ----------------------------------------------------------- ranker

formatRank(mimeType) ==
  CASE mimeType = "image/png" -> 10
    [] mimeType = "image/jpeg" -> 9
    [] mimeType = "image/svg" -> 8
    [] mimeType = "image/x-icon" -> 7
    [] mimeType = "image/vnd.microsoft.icon" -> 7
    [] OTHER -> 0

\* ByWidth.Less as a bug in the comparison of widths would have it.
Less_WidthAscending(a, b) ==
  IF a.Width # b.Width THEN a.Width < b.Width
  ELSE StrLess(a.URL, b.URL)

\* ByWidth.Less(i, j) with a = v[i], b = v[j].  Both fa and fb are the
\* rank of a's MIME type, as in the source.
Less(a, b) ==
  IF a.Width # b.Width THEN a.Width > b.Width
  ELSE LET fa == formatRank(a.MimeType)
           fb == formatRank(a.MimeType)
       IN IF fa # fb THEN fa > fb
          ELSE StrLess(a.URL, b.URL)

\* One pass of the inner loop of insertion sort: x, appended after s,
\* moves left while it is Less than its left neighbour.
RECURSIVE InsertLeft(_, _)
InsertLeft(s, x) ==
  IF s = <<>> THEN <<x>>
  ELSE IF Less(x, s[Len(s)])
       THEN Append(InsertLeft(SubSeq(s, 1, Len(s) - 1), x), s[Len(s)])
       ELSE Append(s, x)

\* sort.Sort(ByWidth(icons)): on slices as short as the ones of this
\* model (at most 6 elements) Go's sort.Sort is a plain insertion sort, so
\* elements Less reports as equal keep the order they came in.
RECURSIVE Sort(_)
Sort(s) ==
  IF s = <<>> THEN <<>>
  ELSE InsertLeft(Sort(SubSeq(s, 1, Len(s) - 1)), s[Len(s)])

\* ------------------------------------------------- postProcessIcons

\* The "continue" as a bug that forgets the MIME type would have it.
Skipped_URLOnly(icon) == icon.URL = ""

\* The "continue" of the first loop.
Skipped(icon) == icon.URL = "" \/ icon.MimeType = ""

\* The body of the first loop up to the hash: the icon as the loop
\* leaves it (the loop writes into the caller's icon).
Tidy(b, icon) ==
  LET u == absURL(b, icon.URL)
      m == IF icon.MimeType = "" THEN mimeTypeURL(u) ELSE icon.MimeType
      i1 == [icon EXCEPT !.URL = u, !.MimeType = m]
  IN IF Skipped(i1) THEN i1
     ELSE LET i2 == IF i1.FileExt = ""
                    THEN [i1 EXCEPT !.FileExt = fileExt(u)] ELSE i1
              sz == extractSizeFromURL(u)
              i3 == IF i2.Width = 0 /\ sz # NoSize
                    THEN [i2 EXCEPT !.Width = sz.w, !.Height = sz.h] ELSE i2
          IN [i3 EXCEPT !.Hash = iconHash(i3)]

\* tidied[k] = v as a bug that keeps the first entry would have it.
MapSet_KeepFirst(m, k, v) ==
  IF k \in DOMAIN m THEN m
  ELSE [x \in DOMAIN m \cup {k} |-> IF x = k THEN v ELSE m[x]]

\* tidied[k] = v
MapSet(m, k, v) == [x \in DOMAIN m \cup {k} |-> IF x = k THEN v ELSE m[x]]

\* The map the first loop builds from the candidates, in their order.
RECURSIVE Tidied(_, _)
Tidied(b, s) ==
  IF s = <<>> THEN <<>>
  ELSE LET rest == Tidied(b, SubSeq(s, 1, Len(s) - 1))
           icon == Tidy(b, s[Len(s)])
       IN IF Skipped(icon) THEN rest ELSE MapSet(rest, icon.Hash, icon)

\* The inner loop as a bug that hands every filter the map's icon, not
\* the previous filter's result, would have it.
RECURSIVE FilterCalls_SameArg(_, _, _)
FilterCalls_SameArg(fs, k, icon) ==
  IF k > Len(fs) THEN <<>>
  ELSE LET r == Call(fs[k], icon)
       IN <<[fun |-> fs[k], arg |-> icon, res |-> r]>>
            \o (IF r = Nil THEN <<>> ELSE FilterCalls_SameArg(fs, k + 1, icon))

\* The inner loop over p.find.filters, from the k-th filter on, as the
\* calls it makes: the filter called, the icon it got, what it returned.
\* Each filter gets the previous one's result, and a nil result ends the
\* loop.
RECURSIVE FilterCalls(_, _, _)
FilterCalls(fs, k, icon) ==
  IF k > Len(fs) THEN <<>>
  ELSE LET r == Call(fs[k], icon)
       IN <<[fun |-> fs[k], arg |-> icon, res |-> r]>>
            \o (IF r = Nil THEN <<>> ELSE FilterCalls(fs, k + 1, r))

\* What the inner loop leaves in `icon`: the last call's result, or the
\* map's icon when no filter is configured.
RunFilters(fs, icon) ==
  LET c == FilterCalls(fs, 1, icon)
  IN IF c = <<>> THEN icon ELSE c[Len(c)].res

\* The second loop: the map's values in the order `keys` of one
\* iteration over the map, filtered, the rejected ones left out.
RECURSIVE Filtered(_, _, _)
Filtered(fs, m, keys) ==
  IF keys = <<>> THEN <<>>
  ELSE LET r == RunFilters(fs, m[Head(keys)])
           rest == Filtered(fs, m, Tail(keys))
       IN IF r = Nil THEN rest ELSE <<r>> \o rest

\* The orders in which a range over a Go map with key set S may visit it.
MapOrders(S) ==
  {o \in [1..Cardinality(S) -> S] : \A i, j \in DOMAIN o : i # j => o[i] # o[j]}

\* ------------------------------------------------------------ state

VARIABLES
  pc,         \* "new" before the call; then the name of the call made
  baseURL,    \* p.baseURL, or NoBase
  filters,    \* f.filters
  raw,        \* the candidates the markup yields, as the extractor makes them
  icons,      \* the candidate list as postProcessIcons leaves it
  tidied,     \* the dedup map of the last run
  out,        \* the icons the last run returned
  calls,      \* per map key, the filter calls the last run made for it
  ignoreManifest,   \* f.ignoreManifest
  ignoreWellKnown,  \* f.ignoreWellKnown
  manifest,   \* the manifest reference of the markup, "" for none
  server,     \* what the HTTP client gets for each URL (0: transport error)
  findArg,    \* the baseURL argument FindReader was called with
  findErr,    \* the error FindReader returned, "" for nil
  readerRead, \* whether the reader's markup was parsed
  fetchLog,   \* the URLs fetchURL was called with, in order
  wellKnown,  \* what findWellKnownIcons returned
  absIn,      \* the argument of the absURL call
  absOut      \* its result

finder == <<filters, ignoreManifest, ignoreWellKnown>>
document == <<raw, manifest, server>>
postState == <<icons, tidied, out, calls>>
findState == <<findArg, findErr, readerRead>>
absState == <<absIn, absOut>>

vars ==
  <<pc, baseURL, finder, document, postState, findState, fetchLog, wellKnown,
    absState>>

RECURSIVE SeqsUpTo(_, _)
SeqsUpTo(S, n) ==
  IF n = 0 THEN {<<>>}
  ELSE LET shorter == SeqsUpTo(S, n - 1)
       IN shorter \cup {Append(s, x) : s \in {t \in shorter : Len(t) = n - 1}, x \in S}

\* ------------------------------------------------- well-known prober

iconNames == <<"favicon.ico", "apple-touch-icon.png">>

\* The HTTP status the client gets for a URL; 0 stands for client.Do
\* returning an error (as it does for a URL the server map does not
\* know: no such host, no scheme).
Response(url) == IF url \in DOMAIN server THEN server[url] ELSE 0

\* Finder.fetchURL with the success threshold one too high.
fetchURL_Accepts300(url) ==
  IF ~ParseOK(url) THEN "request URL"
  ELSE IF Response(url) = 0 THEN "retrieve URL"
  ELSE IF Response(url) > 300 THEN "status"
  ELSE ""

\* Finder.fetchURL: the error it returns, "" for nil.
fetchURL(url) ==
  IF ~ParseOK(url) THEN "request URL"
  ELSE IF Response(url) = 0 THEN "retrieve URL"
  ELSE IF Response(url) > 299 THEN "status"
  ELSE ""

\* The loop of findWellKnownIcons over names, from the k-th on.
RECURSIVE Probe(_, _)
Probe(root, k) ==
  IF k > Len(iconNames) THEN [icons |-> <<>>, fetched |-> <<>>]
  ELSE LET u == root \o iconNames[k]
           rest == Probe(root, k + 1)
       IN [icons |-> IF fetchURL(u) # "" THEN rest.icons
                     ELSE <<RawIcon(u, "", 0, 0)>> \o rest.icons,
           fetched |-> <<u>> \o rest.fetched]

\* parser.findWellKnownIcons: the icons returned and the fetches made.
findWellKnownIcons(b) ==
  IF b = NoBase THEN [icons |-> <<>>, fetched |-> <<>>]
  ELSE Probe(Scheme(b) \o "://" \o Host(b) \o "/", 1)

\* ------------------------------------------------------ parseReader

\* The icons of the manifest the server holds.
ManifestIcons == <<RawIcon("/c.png", "image/png", 16, 16)>>

\* What parseReader collects before postProcessIcons: the markup's
\* candidates, then the manifest's (unless ignored, none referenced, or
\* its fetch fails), then the well-known ones (unless ignored).
ParseReader(b) ==
  LET mURL == absURL(b, manifest)
      mFetched == IF manifest # "" /\ ~ignoreManifest THEN <<mURL>> ELSE <<>>
      mIcons == IF mFetched # <<>> /\ fetchURL(mURL) = "" THEN ManifestIcons ELSE <<>>
      wk == IF ignoreWellKnown THEN [icons |-> <<>>, fetched |-> <<>>]
            ELSE findWellKnownIcons(b)
  IN [icons |-> raw \o mIcons \o wk.icons, fetched |-> mFetched \o wk.fetched]

\* ---------------------------------------------------------- actions

\* FindReader called without a baseURL argument.
NoArg == "<none>"

BaseArgs == {NoArg, "https://h.com", "/local", "%zz", ":x"}

\* New's loop applies one option: WithFilter (and every convenience
\* option built on it) appends to f.filters.
WithFilter(filter) ==
  /\ pc = "new"
  /\ filters' = Append(filters, filter)
  /\ UNCHANGED <<pc, baseURL, ignoreManifest, ignoreWellKnown, document,
                 postState, findState, fetchLog, wellKnown, absState>>

\* postProcessIcons(s) on a parser with base b, as a whole: the list as
\* the first loop leaves it, the map, and what is returned.  The order
\* `keys` in which the range over the map visits it is Go's choice.
PostProcess(b, s) ==
  LET m == Tidied(b, s)
  IN /\ icons' = [i \in DOMAIN s |-> Tidy(b, s[i])]
     /\ tidied' = m
     /\ calls' = [h \in DOMAIN m |-> FilterCalls(filters, 1, m[h])]
     /\ \E keys \in MapOrders(DOMAIN m) :
          out' = Sort(Filtered(filters, m, keys))

\* One discovery run over the document's candidates.
PostProcessIcons ==
  /\ pc \in {"new", "done"}
  /\ PostProcess(baseURL, raw)
  /\ pc' = "done"
  /\ UNCHANGED <<baseURL, finder, document, findState, fetchLog, wellKnown,
                 absState>>

\* p.absURL(url) on a parser with the given base URL.
CallAbsURL(url) ==
  /\ pc = "new"
  /\ absIn' = url
  /\ absOut' = absURL(baseURL, url)
  /\ pc' = "absURL"
  /\ UNCHANGED <<baseURL, finder, document, postState, findState, fetchLog,
                 wellKnown>>

\* p.findWellKnownIcons() on a parser with the given base URL.
CallFindWellKnownIcons ==
  /\ pc = "new"
  /\ LET r == findWellKnownIcons(baseURL)
     IN /\ wellKnown' = r.icons
        /\ fetchLog' = r.fetched
  /\ pc' = "findWellKnownIcons"
  /\ UNCHANGED <<baseURL, finder, document, postState, findState, absState>>

\* FindReader as a bug that parses the reader before it looks at the
\* base URL's parse error would have it.
FindReader_ParseFirst(arg) ==
  /\ pc = "new"
  /\ findArg' = arg
  /\ pc' = "FindReader"
  /\ readerRead' = TRUE
  /\ LET b == IF arg = NoArg \/ ~ParseOK(arg) THEN NoBase ELSE arg
         r == ParseReader(b)
     IN /\ baseURL' = b
        /\ fetchLog' = r.fetched
        /\ IF arg # NoArg /\ ~ParseOK(arg)
           THEN /\ findErr' = "reader base URL"
                /\ out' = <<>>
                /\ UNCHANGED <<icons, tidied, calls>>
           ELSE /\ findErr' = ""
                /\ PostProcess(b, r.icons)
  /\ UNCHANGED <<finder, document, wellKnown, absState>>

\* Finder.FindReader(r, baseURL...) as a whole.  A new parser has no
\* base URL; an argument that does not parse ends the call before
\* parseReader.
FindReader(arg) ==
  /\ pc = "new"
  /\ findArg' = arg
  /\ pc' = "FindReader"
  /\ IF arg # NoArg /\ ~ParseOK(arg)
     THEN /\ findErr' = "reader base URL"
          /\ out' = <<>>
          /\ baseURL' = NoBase
          /\ UNCHANGED <<icons, tidied, calls, readerRead, fetchLog>>
     ELSE LET b == IF arg = NoArg THEN NoBase ELSE arg
              r == ParseReader(b)
          IN /\ baseURL' = b
             /\ readerRead' = TRUE
             /\ fetchLog' = r.fetched
             /\ findErr' = ""
             /\ PostProcess(b, r.icons)
  /\ UNCHANGED <<finder, document, wellKnown, absState>>

\* --------------------------------------------------- specifications

\* Nothing called yet on the parser side.
Untouched ==
  /\ icons = <<>> /\ tidied = <<>> /\ out = <<>> /\ calls = <<>>
  /\ findArg = NoArg /\ findErr = "" /\ readerRead = FALSE
  /\ fetchLog = <<>> /\ wellKnown = <<>>
  /\ absIn = "" /\ absOut = ""

\* A Finder from New() and a parser that got a document's candidates.
InitWith(n) ==
  /\ pc = "new"
  /\ baseURL \in {NoBase, "https://h.com"}
  /\ filters = <<>>
  /\ ignoreManifest = FALSE /\ ignoreWellKnown = FALSE
  /\ raw \in SeqsUpTo(Candidates, n)
  /\ manifest = ""
  /\ server = <<>>
  /\ Untouched

\* Discovery runs over documents of up to MaxIcons candidates, with
\* filter chains of up to MaxFilters filters.
Init == InitWith(MaxIcons)

Next ==
  \/ \E filter \in Filters : Len(filters) < MaxFilters /\ WithFilter(filter)
  \/ PostProcessIcons

Spec == Init /\ [][Next]_vars

\* The same runs with longer filter chains over shorter documents.
InitChain == InitWith(MaxDoc)

NextChain ==
  \/ \E filter \in Filters : Len(filters) < MaxChain /\ WithFilter(filter)
  \/ PostProcessIcons

SpecChain == InitChain /\ [][NextChain]_vars

\* Discovery runs without filters over documents whose candidates
\* declare both, one or none of width and height.
InitSizes ==
  /\ pc = "new"
  /\ baseURL \in {NoBase, "https://h.com"}
  /\ filters = <<>>
  /\ ignoreManifest = FALSE /\ ignoreWellKnown = FALSE
  /\ raw \in SeqsUpTo(SizedCandidates, MaxSized)
  /\ manifest = ""
  /\ server = <<>>
  /\ Untouched

NextSizes == PostProcessIcons

SpecSizes == InitSizes /\ [][NextSizes]_vars

WellKnownURLs == {"https://h.com/favicon.ico", "https://h.com/apple-touch-icon.png"}

Servers ==
  {w @@ m : w \in [WellKnownURLs -> {0, 200, 299, 300, 404}],
            m \in [{"https://h.com/manifest.json"} -> {200, 404}]}

\* One call on a parser: absURL or findWellKnownIcons on a parser with
\* any base URL, or FindReader on a Finder with any switches.
InitParser ==
  /\ pc = "new"
  /\ baseURL \in {NoBase} \cup BaseURLs
  /\ filters = <<>>
  /\ ignoreManifest \in BOOLEAN /\ ignoreWellKnown \in BOOLEAN
  /\ raw \in {<<>>, <<RawIcon("/a.png", "", 0, 0)>>}
  /\ manifest \in {"", "/manifest.json"}
  /\ server \in Servers
  /\ Untouched

NextParser ==
  \/ \E url \in RawURLs \cup {":x"} : CallAbsURL(url)
  \/ CallFindWellKnownIcons
  \/ \E arg \in BaseArgs : FindReader(arg)

SpecParser == InitParser /\ [][NextParser]_vars

\* ----------------------------------------------------------- claims

\* The (URL, Width, Height) of an icon.
Identity(i) == <<i.URL, i.Width, i.Height>>

\* Only the package's own accept/reject filters are configured.
BuiltinOnly == \A k \in DOMAIN filters : filters[k] \in BuiltinFilters

Returned == pc = "done"

\* C1: in the returned sequence, of two icons of equal Width with
\* different format priority, the one with the higher priority comes
\* first.
FormatPriorityOrder ==
  Returned =>
    \A i, j \in DOMAIN out :
      (i < j /\ out[i].Width = out[j].Width)
        => formatRank(out[i].MimeType) >= formatRank(out[j].MimeType)

\* C2: a run over the same Finder and the same candidates returns the
\* same icons in the same order as the run before it.
Deterministic == [][(Returned /\ Returned') => out' = out]_vars

\* C3: the returned sequence is ordered by Width, largest first,
\* whatever the candidates and the filters.
WidthDescending ==
  Returned =>
    \A i, j \in DOMAIN out : i < j => out[i].Width >= out[j].Width

\* C3's case: a filtered run returned icons of different widths.
WidthDescendingWitness ==
  /\ Returned
  /\ filters # <<>>
  /\ Len(out) >= 2
  /\ out[1].Width > out[Len(out)].Width

\* C4 as stated: the returned sequence never holds two icons with the
\* same (URL, Width, Height).
NoDuplicateIdentity ==
  Returned =>
    \A i, j \in DOMAIN out : i # j => Identity(out[i]) # Identity(out[j])

\* C4 as amended: candidates that agree on (URL, Width, Height) after
\* the first loop share one entry of the dedup map; with filters that do
\* not modify icons the returned sequence holds no two icons with the
\* same (URL, Width, Height), and with no filter it holds exactly one for
\* each such candidate.
DedupUnmodified ==
  Returned =>
    /\ \A i \in DOMAIN icons :
         ~(icons[i].URL = "" \/ icons[i].MimeType = "")
           => Cardinality({h \in DOMAIN tidied :
                             Identity(tidied[h]) = Identity(icons[i])}) = 1
    /\ BuiltinOnly =>
         \A i, j \in DOMAIN out : i # j => Identity(out[i]) # Identity(out[j])
    /\ filters = <<>> =>
         \A i \in DOMAIN icons :
           ~(icons[i].URL = "" \/ icons[i].MimeType = "")
             => Cardinality({k \in DOMAIN out :
                               Identity(out[k]) = Identity(icons[i])}) = 1

\* C4's case: two candidates that differ as extracted agree on (URL,
\* Width, Height) after the first loop, and one icon is returned for them.
DedupWitness ==
  /\ Returned
  /\ BuiltinOnly
  /\ \E i, j \in DOMAIN icons :
       /\ i # j
       /\ raw[i] # raw[j]
       /\ icons[i].URL # "" /\ icons[i].MimeType # ""
       /\ icons[j].URL # "" /\ icons[j].MimeType # ""
       /\ Identity(icons[i]) = Identity(icons[j])
       /\ Cardinality({k \in DOMAIN out : Identity(out[k]) = Identity(icons[i])}) = 1

\* The last candidate, in input order, that was stored under hash h.
LastWith(h) ==
  CHOOSE i \in DOMAIN icons :
    /\ icons[i].URL # "" /\ icons[i].MimeType # "" /\ icons[i].Hash = h
    /\ \A j \in DOMAIN icons :
         (icons[j].URL # "" /\ icons[j].MimeType # "" /\ icons[j].Hash = h)
           => j <= i

\* C5: of the candidates with one hash the dedup map keeps the last in
\* input order; its MimeType and FileExt are what the filters get and
\* what is returned.
LastWins ==
  Returned =>
    \A h \in DOMAIN tidied :
      /\ tidied[h] = icons[LastWith(h)]
      /\ BuiltinOnly =>
           \A k \in DOMAIN out :
             out[k].Hash = h
               => /\ out[k].MimeType = icons[LastWith(h)].MimeType
                  /\ out[k].FileExt = icons[LastWith(h)].FileExt

\* C5's case: two candidates with one hash and different MIME types, and
\* the later one's MIME type returned.
LastWinsWitness ==
  /\ Returned
  /\ \E i, j \in DOMAIN icons :
       /\ i < j
       /\ icons[i].Hash # NoHash
       /\ icons[i].Hash = icons[j].Hash
       /\ icons[i].MimeType # icons[j].MimeType
       /\ \E k \in DOMAIN out :
            out[k].Hash = icons[j].Hash /\ out[k].MimeType = icons[j].MimeType

\* C6: every candidate the filters get has a URL and a MIME type, and so
\* has every icon returned when only the package's own filters are
\* configured; a candidate left without one of the two is in neither.
NonEmptySurvivors ==
  Returned =>
    /\ \A h \in DOMAIN tidied : tidied[h].URL # "" /\ tidied[h].MimeType # ""
    /\ BuiltinOnly => \A k \in DOMAIN out : out[k].URL # "" /\ out[k].MimeType # ""
    /\ \A i \in DOMAIN icons :
         (icons[i].URL = "" \/ icons[i].MimeType = "")
           => /\ \A h \in DOMAIN tidied : tidied[h] # icons[i]
              /\ BuiltinOnly => \A k \in DOMAIN out : out[k] # icons[i]

\* C6's case: a filtered run in which one candidate was left without a
\* MIME type and another was returned.
NonEmptySurvivorsWitness ==
  /\ Returned
  /\ filters # <<>>
  /\ BuiltinOnly
  /\ out # <<>>
  /\ \E i \in DOMAIN icons : icons[i].URL # "" /\ icons[i].MimeType = ""

\* C7: with MinWidth(lo) and MaxWidth(hi) configured, in either order,
\* exactly the deduplicated candidates with lo <= Width <= hi are
\* returned.
BoundsCompose ==
  Returned =>
    \A lo, hi \in BoundArgs :
      LET mn == [kind |-> "MinWidth", n |-> lo]
          mx == [kind |-> "MaxWidth", n |-> hi]
          within == {h \in DOMAIN tidied :
                       lo <= tidied[h].Width /\ tidied[h].Width <= hi}
      IN filters \in {<<mn, mx>>, <<mx, mn>>}
           => /\ {out[k] : k \in DOMAIN out} = {tidied[h] : h \in within}
              /\ Len(out) = Cardinality(within)

\* C7's case: MaxWidth was added before MinWidth, and an icon whose
\* width equals the lower bound was returned.
BoundsComposeWitness ==
  /\ Returned
  /\ Len(filters) = 2
  /\ filters[1].kind = "MaxWidth" /\ filters[2].kind = "MinWidth"
  /\ out # <<>>
  /\ out[1].Width = filters[2].n

\* C8: FindReader with a base URL string that does not parse returns an
\* error and no icons, having neither parsed the reader nor fetched
\* anything.
InvalidBaseFailsFirst ==
  (pc = "FindReader" /\ findArg # NoArg /\ ~ParseOK(findArg))
    => /\ findErr # ""
       /\ out = <<>>
       /\ ~readerRead
       /\ fetchLog = <<>>

\* C8's case: the call failed on a document that has candidates and a
\* manifest, with no source switched off.
InvalidBaseWitness ==
  /\ pc = "FindReader"
  /\ findArg = "%zz"
  /\ findErr # ""
  /\ raw # <<>> /\ manifest # ""
  /\ ~ignoreManifest /\ ~ignoreWellKnown

\* The URL findWellKnownIcons builds for the k-th name.
WellKnownURL(k) == Scheme(baseURL) \o "://" \o Host(baseURL) \o "/" \o iconNames[k]

\* The fetch of a URL succeeded with a status up to 299.
Present(u) == ParseOK(u) /\ Response(u) >= 1 /\ Response(u) <= 299

\* C9: with a base URL, findWellKnownIcons makes one fetch per name, in
\* list order, and returns a candidate for exactly the names whose fetch
\* succeeded with a status up to 299; without one it fetches nothing and
\* returns nothing; no error comes out of it.
ProberAbsorbsFailures ==
  pc = "findWellKnownIcons" =>
    /\ findErr = ""
    /\ IF baseURL = NoBase
       THEN fetchLog = <<>> /\ wellKnown = <<>>
       ELSE LET urls == [k \in DOMAIN iconNames |-> WellKnownURL(k)]
                found == SelectSeq(urls, Present)
            IN /\ fetchLog = urls
               /\ wellKnown = [k \in DOMAIN found |-> RawIcon(found[k], "", 0, 0)]

\* C9's case: the first probe got status 300 and the second 299; only
\* the second name's candidate was returned.
ProberWitness ==
  /\ pc = "findWellKnownIcons"
  /\ baseURL = "https://h.com"
  /\ server["https://h.com/favicon.ico"] = 300
  /\ server["https://h.com/apple-touch-icon.png"] = 299
  /\ Len(fetchLog) = 2
  /\ Len(wellKnown) = 1
  /\ wellKnown[1].URL = "https://h.com/apple-touch-icon.png"

\* C10 as stated: absURL returns "" for every non-empty URL string that
\* does not parse, with or without a base URL.
MalformedAlwaysEmpty ==
  (pc = "absURL" /\ absIn # "" /\ ~ParseOK(absIn)) => absOut = ""

\* C10 as amended: for a non-empty URL string that does not parse,
\* absURL returns "" when the parser has a base URL, and the string
\* itself when it has none.
MalformedEmptyWithBase ==
  (pc = "absURL" /\ absIn # "" /\ ~ParseOK(absIn))
    => absOut = (IF baseURL = NoBase THEN absIn ELSE "")

\* C10's case: a URL string that does not parse, resolved by a parser
\* with a base URL.
MalformedWitness ==
  /\ pc = "absURL"
  /\ baseURL = "https://h.com"
  /\ absIn = "%zz"
  /\ absOut = ""

\* C11: for each deduplicated candidate the filters are called in the
\* order of f.filters (the order the options appended them), the first
\* with the map's icon and each later one with the previous one's result;
\* after a nil result no further filter is called and the candidate is
\* not returned; a candidate no filter rejected is returned as the last
\* filter left it.
FiltersInOrder ==
  Returned =>
    /\ DOMAIN calls = DOMAIN tidied
    /\ \A h \in DOMAIN calls :
         LET c == calls[h]
         IN /\ Len(c) <= Len(filters)
            /\ \A n \in DOMAIN c :
                 /\ c[n].fun = filters[n]
                 /\ c[n].arg = (IF n = 1 THEN tidied[h] ELSE c[n - 1].res)
                 /\ n < Len(c) => c[n].res # Nil
            /\ Len(c) < Len(filters) => c[Len(c)].res = Nil
            /\ IF c # <<>> /\ c[Len(c)].res = Nil
               THEN \A k \in DOMAIN out : out[k].Hash # h
               ELSE \E k \in DOMAIN out :
                      out[k] = (IF c = <<>> THEN tidied[h] ELSE c[Len(c)].res)

\* C11's case: the first of two filters modified the icon, and the
\* second was called with the modified icon and accepted it.
FiltersInOrderWitness ==
  /\ Returned
  /\ Len(filters) = 2
  /\ \E h \in DOMAIN calls :
       /\ Len(calls[h]) = 2
       /\ calls[h][1].res # calls[h][1].arg
       /\ calls[h][2].arg = calls[h][1].res
       /\ calls[h][2].res # Nil
       /\ Call(filters[2], tidied[h]) = Nil
       /\ out # <<>>

\* C12: a candidate that enters postProcessIcons with a non-zero Width
\* keeps that Width, one that enters with a non-zero Height keeps that
\* Height, and one with both unknown gets both from the size token of
\* its URL if there is one and stays 0/0 otherwise.
DeclaredSizeKept ==
  Returned =>
    \A i \in DOMAIN raw :
      LET sz == extractSizeFromURL(icons[i].URL)
      IN /\ raw[i].Width # 0 => icons[i].Width = raw[i].Width
         /\ raw[i].Height # 0 => icons[i].Height = raw[i].Height
         /\ raw[i].Width = 0 /\ raw[i].Height = 0 =>
              IF ~Skipped(icons[i]) /\ sz # NoSize
              THEN icons[i].Width = sz.w /\ icons[i].Height = sz.h
              ELSE icons[i].Width = 0 /\ icons[i].Height = 0

====
